---------------------------- MODULE Spec2Model ----------------------------
(***************************************************************************)
(* A model of the Password CSV Compare application (src/app.js).           *)
(*                                                                         *)
(* JavaScript strings are modelled by TLA+ strings, read and built with    *)
(* Len, SubSeq and \o only, so that parsing, escaping, lower-casing and    *)
(* normalisation are computed character by character as the code does.     *)
(* Arrays are sequences; a credential object is a record with the seven    *)
(* properties the code gives it.                                           *)
(***************************************************************************)
EXTENDS Integers, Sequences, FiniteSets, TLC

VARIABLES
    dashEntries,     \* app.js:80   records parsed from the Dashlane file
    appleEntries,    \* app.js:81   records parsed from the Apple file
    missingEntries,  \* app.js:82   result of the last comparison
    strictChecked,   \* strictToggle.checked
    currentLang,     \* app.js:56
    hidden,          \* the 'hidden' class of the summary/preview/export sections
    compareDisabled, \* compareBtn.disabled
    selected,        \* per slot: the file currently shown by the file input
    reads,           \* per slot: the FileReader reads in flight, oldest first
    latest,          \* per slot: how far the read of the current selection is
    exported,        \* content of the last downloaded CSV
    args,            \* arguments of the pure function being called
    result,          \* its return value, once called
    done             \* whether it has been called

uiVars == <<dashEntries, appleEntries, missingEntries, strictChecked,
            currentLang, hidden, compareDisabled, selected, reads, latest, exported>>
fnVars == <<args, result, done>>
vars == <<dashEntries, appleEntries, missingEntries, strictChecked,
          currentLang, hidden, compareDisabled, selected, reads, latest, exported,
          args, result, done>>

-----------------------------------------------------------------------------
(* Characters and strings *)

DQUOTE == "\""
COMMA == ","
LF == "\n"
CR == "\r"
CRLF == "\r\n"

LowerLetters == "abcdefghijklmnopqrstuvwxyz"
UpperLetters == "ABCDEFGHIJKLMNOPQRSTUVWXYZ"
Digits == "0123456789"

\* text[i] with a 1-based index; "" stands for undefined past either end
CharAt(s, i) == IF i >= 1 /\ i <= Len(s) THEN SubSeq(s, i, i) ELSE ""

\* position of character c in s, 0 when absent
IndexOfChar(c, s) ==
    IF \E i \in 1..Len(s) : SubSeq(s, i, i) = c
    THEN CHOOSE i \in 1..Len(s) :
            /\ SubSeq(s, i, i) = c
            /\ \A j \in 1..(i - 1) : SubSeq(s, j, j) # c
    ELSE 0

HasChar(s, c) == \E i \in 1..Len(s) : SubSeq(s, i, i) = c

\* the lower-case letter of each upper-case letter
LowerOf ==
    [c \in {SubSeq(UpperLetters, k, k) : k \in 1..Len(UpperLetters)} |->
        LET k == IndexOfChar(c, UpperLetters) IN SubSeq(LowerLetters, k, k)]

LowerChar(c) == IF c \in DOMAIN LowerOf THEN LowerOf[c] ELSE c

RECURSIVE toLowerCase(_)
toLowerCase(s) ==
    IF Len(s) = 0 THEN ""
    ELSE LowerChar(SubSeq(s, 1, 1)) \o toLowerCase(SubSeq(s, 2, Len(s)))

\* String.prototype.includes
includes(s, sub) ==
    \E i \in 1..(Len(s) - Len(sub) + 1) : SubSeq(s, i, i + Len(sub) - 1) = sub

\* the characters String.prototype.trim removes, as far as the model's
\* alphabets hold them
WhiteSpace == {" ", "\t", "\n", "\r"}

RECURSIVE trimStart(_)
trimStart(s) ==
    IF Len(s) > 0 /\ SubSeq(s, 1, 1) \in WhiteSpace
    THEN trimStart(SubSeq(s, 2, Len(s)))
    ELSE s

RECURSIVE trimEnd(_)
trimEnd(s) ==
    IF Len(s) > 0 /\ SubSeq(s, Len(s), Len(s)) \in WhiteSpace
    THEN trimEnd(SubSeq(s, 1, Len(s) - 1))
    ELSE s

trim(s) == trimEnd(trimStart(s))

\* all strings of at most n characters over the alphabet alpha
RECURSIVE Strings(_, _)
Strings(alpha, n) ==
    IF n = 0 THEN {""}
    ELSE LET S == Strings(alpha, n - 1)
         IN  S \cup {s \o c : s \in S, c \in alpha}

\* all sequences of at most n elements of S
RECURSIVE Lists(_, _)
Lists(S, n) ==
    IF n = 0 THEN {<<>>}
    ELSE LET L == Lists(S, n - 1)
         IN  L \cup {Append(l, x) : l \in L, x \in S}

-----------------------------------------------------------------------------
(* parseCSV, app.js:112-150 *)

\* a line break that takes \r\n for two terminators
lineBreakLengthNoCRLF(text, i) == 1

\* characters the terminator at position i takes: 2 for \r\n (app.js:133-135)
lineBreakLength(text, i) ==
    IF CharAt(text, i) = CR /\ CharAt(text, i + 1) = LF THEN 2 ELSE 1

\* one iteration of the for loop on the loop's variables (app.js:118-143);
\* i is the 1-based position of text[i]
parseCSVBody(text, st) ==
    LET c == CharAt(text, st.i)
    IN  IF c = DQUOTE
        THEN IF st.inQuotes /\ CharAt(text, st.i + 1) = DQUOTE
             THEN [st EXCEPT !.field = @ \o DQUOTE, !.i = @ + 2]
             ELSE [st EXCEPT !.inQuotes = ~@, !.i = @ + 1]
        ELSE IF c = COMMA /\ ~st.inQuotes
        THEN [st EXCEPT !.row = Append(@, st.field), !.field = "", !.i = @ + 1]
        ELSE IF (c = LF \/ c = CR) /\ ~st.inQuotes
        THEN [st EXCEPT !.rows = Append(@, Append(st.row, st.field)),
                        !.row = <<>>, !.field = "",
                        !.i = @ + lineBreakLength(text, st.i)]
        ELSE [st EXCEPT !.field = @ \o c, !.i = @ + 1]

\* the for loop: at most n iterations from st, stopping when i passes the
\* end of the text (app.js:117)
RECURSIVE parseCSVLoop(_, _, _)
parseCSVLoop(text, st, n) ==
    IF n = 0 \/ st.i > Len(text) THEN st
    ELSE IF n = 1 THEN parseCSVBody(text, st)
    ELSE LET half == parseCSVLoop(text, st, n \div 2)
         IN  parseCSVLoop(text, half, n - (n \div 2))

parseCSV(text) ==
    LET st == parseCSVLoop(text,
                           [i |-> 1, field |-> "", row |-> <<>>, rows |-> <<>>,
                            inQuotes |-> FALSE],
                           Len(text))
    IN  \* add the last field/row if necessary (app.js:145-148)
        IF Len(st.field) > 0 \/ Len(st.row) > 0
        THEN Append(st.rows, Append(st.row, st.field))
        ELSE st.rows

-----------------------------------------------------------------------------
(* Column mapping, app.js:156-188 *)

\* the properties of FIELD_SYNONYMS in the order for...in visits them
FieldOrder == <<"title", "url", "username", "password", "notes", "otpAuth">>

FIELD_SYNONYMS ==
    [title    |-> <<"title", "name", "nom", "item", "account">>,
     url      |-> <<"url", "website", "site", "address", "webaddress", "adresse">>,
     username |-> <<"username", "login", "email", "e-mail", "user", "utilisateur">>,
     password |-> <<"password", "motdepasse", "passcode">>,
     notes    |-> <<"notes", "note", "remarks", "comment", "commentaires", "remarques">>,
     otpAuth  |-> <<"otp", "totp", "twofactor", "otpAuth">>]

\* s.replace(/[^a-z0-9]/g, '')
RECURSIVE stripNonAlnum(_)
stripNonAlnum(s) ==
    IF Len(s) = 0 THEN ""
    ELSE LET c == SubSeq(s, 1, 1)
             rest == stripNonAlnum(SubSeq(s, 2, Len(s)))
         IN  IF HasChar(LowerLetters, c) \/ HasChar(Digits, c)
             THEN c \o rest
             ELSE rest

\* x.toLowerCase().replace(/[^a-z0-9]/g, '')
normaliseHeader(x) == stripNonAlnum(toLowerCase(x))

\* whether the normalized header contains a synonym of prop (app.js:176-177)
matchesProp(normalized, prop) ==
    \E k \in 1..Len(FIELD_SYNONYMS[prop]) :
        includes(normalized, normaliseHeader(FIELD_SYNONYMS[prop][k]))

\* the property at which the two nested loops of app.js:174-185 reach the
\* return statement: the first one in FieldOrder with a matching synonym,
\* "" when the loops run to their end
firstMatchingProp(normalized) ==
    IF \E p \in 1..Len(FieldOrder) : matchesProp(normalized, FieldOrder[p])
    THEN FieldOrder[CHOOSE p \in 1..Len(FieldOrder) :
                        /\ matchesProp(normalized, FieldOrder[p])
                        /\ \A q \in 1..(p - 1) : ~matchesProp(normalized, FieldOrder[q])]
    ELSE ""

\* headers.forEach of app.js:172-186; map is a sequence with one entry per
\* column visited, "" where the JavaScript object has no key
RECURSIVE detectMappingLoop(_, _, _, _)
detectMappingLoop(headers, idx, map, usedProps) ==
    IF idx > Len(headers) THEN map
    ELSE LET prop == firstMatchingProp(normaliseHeader(headers[idx]))
         IN  IF prop # "" /\ prop \notin usedProps
             THEN detectMappingLoop(headers, idx + 1, Append(map, prop),
                                    usedProps \cup {prop})
             ELSE detectMappingLoop(headers, idx + 1, Append(map, ""), usedProps)

detectMapping(headers) == detectMappingLoop(headers, 1, <<>>, {})

\* mapping[col] of app.js:266, "" for undefined
mappingAt(mapping, col) ==
    IF col >= 1 /\ col <= Len(mapping) THEN mapping[col] ELSE ""

-----------------------------------------------------------------------------
(* URL normalisation and domain extraction, app.js:193-229 *)

\* /^https?:\/\//i.test(s)
hasHttpScheme(s) ==
    \/ Len(s) >= 7 /\ toLowerCase(SubSeq(s, 1, 7)) = "http://"
    \/ Len(s) >= 8 /\ toLowerCase(SubSeq(s, 1, 8)) = "https://"

\* s.replace(/\/$/, '')
stripTrailingSlash(s) ==
    IF Len(s) > 0 /\ SubSeq(s, Len(s), Len(s)) = "/"
    THEN SubSeq(s, 1, Len(s) - 1)
    ELSE s

normaliseUrl(url) ==
    IF url = "" THEN ""
    ELSE LET trimmed == trim(url)
             prefixed == IF trimmed # "" /\ ~hasHttpScheme(trimmed)
                         THEN "https://" \o trimmed
                         ELSE trimmed
         IN  stripTrailingSlash(prefixed)

\* s.split(sep) for a one-character separator
RECURSIVE split(_, _)
split(s, sep) ==
    LET k == IndexOfChar(sep, s)
    IN  IF k = 0 THEN <<s>>
        ELSE <<SubSeq(s, 1, k - 1)>> \o split(SubSeq(s, k + 1, Len(s)), sep)

\* parts.join(sep)
RECURSIVE join(_, _)
join(parts, sep) ==
    IF Len(parts) = 0 THEN ""
    ELSE IF Len(parts) = 1 THEN parts[1]
    ELSE parts[1] \o sep \o join(Tail(parts), sep)

RECURSIVE skipSlashes(_)
skipSlashes(s) ==
    IF Len(s) > 0 /\ SubSeq(s, 1, 1) = "/" THEN skipSlashes(SubSeq(s, 2, Len(s))) ELSE s

\* characters of the model's alphabets that the URL parser refuses in a host
ForbiddenHostChars == {" ", "|"}

\* new URL(urlString).hostname.toLowerCase() of app.js:211-212, "" when the
\* constructor throws.  The platform's parser is modelled on http(s) URLs
\* written with letters, ".", "/", "|" and spaces: the input is stripped of
\* surrounding spaces, the slashes after the scheme are skipped, the host
\* runs to the next "/", an empty host or one holding a forbidden character
\* is an error, and the host is lower-cased.  Ports, credentials, queries,
\* fragments, escapes and numeric hosts are outside the model's alphabets.
urlHostname(urlString) ==
    LET s == trim(urlString)
        ls == toLowerCase(s)
        afterScheme ==
            IF Len(s) >= 6 /\ SubSeq(ls, 1, 6) = "https:" THEN SubSeq(s, 7, Len(s))
            ELSE IF Len(s) >= 5 /\ SubSeq(ls, 1, 5) = "http:" THEN SubSeq(s, 6, Len(s))
            ELSE ""
        authority == skipSlashes(afterScheme)
        k == IndexOfChar("/", authority)
        host == IF k = 0 THEN authority ELSE SubSeq(authority, 1, k - 1)
    IN  IF \E c \in ForbiddenHostChars : HasChar(host, c) THEN "" ELSE toLowerCase(host)

secondLevelTlds == {"co", "com", "gov", "ac", "edu", "net", "org"}

extractDomain(urlString) ==
    LET host == urlHostname(urlString)
        parts == split(host, ".")
        n == Len(parts)
    IN  IF host = "" THEN ""
        ELSE IF n <= 2 THEN host
        ELSE IF parts[n - 1] \in secondLevelTlds
        THEN join(SubSeq(parts, n - 2, n), ".")
        ELSE join(SubSeq(parts, n - 1, n), ".")

-----------------------------------------------------------------------------
(* parseFile, app.js:234-284: the list the promise resolves with, given the
   text the FileReader read *)

EmptyEntry ==
    [title |-> "", url |-> "", username |-> "", password |-> "",
     notes |-> "", otpAuth |-> "", domain |-> ""]

\* the loop of app.js:265-269
RECURSIVE mapFields(_, _, _, _)
mapFields(row, mapping, col, obj) ==
    IF col > Len(row) THEN obj
    ELSE LET prop == mappingAt(mapping, col)
         IN  IF prop = "" THEN mapFields(row, mapping, col + 1, obj)
             ELSE mapFields(row, mapping, col + 1, [obj EXCEPT ![prop] = row[col]])

\* app.js:255-276
buildEntry(row, mapping) ==
    LET obj == mapFields(row, mapping, 1, EmptyEntry)
        url == normaliseUrl(obj.url)
    IN  [obj EXCEPT !.url = url,
                    !.domain = extractDomain(url),
                    !.username = IF HasChar(obj.username, "@")
                                 THEN toLowerCase(obj.username)
                                 ELSE obj.username]

\* the loop of app.js:251-278
RECURSIVE buildList(_, _, _, _)
buildList(rows, i, mapping, list) ==
    IF i > Len(rows) THEN list
    ELSE IF \A col \in 1..Len(rows[i]) : rows[i][col] = ""
    THEN buildList(rows, i + 1, mapping, list)
    ELSE buildList(rows, i + 1, mapping, Append(list, buildEntry(rows[i], mapping)))

parseFile(text) ==
    LET rows == parseCSV(text)
    IN  IF Len(rows) = 0 THEN <<>>
        ELSE LET headers == [h \in 1..Len(rows[1]) |-> trim(rows[1][h])]
             IN  buildList(rows, 2, detectMapping(headers), <<>>)

-----------------------------------------------------------------------------
(* computeMissing, app.js:297-315 *)

\* entryKey without the lower-casing of the url or domain
entryKeyCaseSensitive(entry, strict) ==
    IF strict
    THEN entry.url \o "|" \o toLowerCase(entry.username)
    ELSE entry.domain \o "|" \o toLowerCase(entry.username)

entryKey(entry, strict) ==
    IF strict
    THEN toLowerCase(entry.url) \o "|" \o toLowerCase(entry.username)
    ELSE toLowerCase(entry.domain) \o "|" \o toLowerCase(entry.username)

\* listB.forEach of app.js:299-304
RECURSIVE keySet(_, _, _, _)
keySet(listB, i, strict, set) ==
    IF i > Len(listB) THEN set
    ELSE keySet(listB, i + 1, strict, set \cup {entryKey(listB[i], strict)})

\* listA.forEach of app.js:306-313
RECURSIVE collectMissing(_, _, _, _, _)
collectMissing(listA, i, strict, set, missing) ==
    IF i > Len(listA) THEN missing
    ELSE IF entryKey(listA[i], strict) \notin set
    THEN collectMissing(listA, i + 1, strict, set, Append(missing, listA[i]))
    ELSE collectMissing(listA, i + 1, strict, set, missing)

\* computeMissing that compares by domain whatever the mode
computeMissingIgnoringStrict(listA, listB, strict) ==
    collectMissing(listA, 1, FALSE, keySet(listB, 1, FALSE, {}), <<>>)

computeMissing(listA, listB, strict) ==
    collectMissing(listA, 1, strict, keySet(listB, 1, strict, {}), <<>>)

-----------------------------------------------------------------------------
(* generateCsv, app.js:378-402 *)

CsvHeader == "title,url,username,password,notes,otpAuth"

\* str.replace(/"/g, '""')
RECURSIVE doubleQuotes(_)
doubleQuotes(str) ==
    IF Len(str) = 0 THEN ""
    ELSE LET c == SubSeq(str, 1, 1)
         IN  (IF c = DQUOTE THEN DQUOTE \o DQUOTE ELSE c)
                 \o doubleQuotes(SubSeq(str, 2, Len(str)))

\* escape that looks for commas and double-quotes only
escapeIgnoringNewline(value) ==
    IF HasChar(value, COMMA) \/ HasChar(value, DQUOTE)
    THEN DQUOTE \o doubleQuotes(value) \o DQUOTE
    ELSE value

\* escape of app.js:382-389
escape(value) ==
    IF HasChar(value, COMMA) \/ HasChar(value, DQUOTE) \/ HasChar(value, LF)
    THEN DQUOTE \o doubleQuotes(value) \o DQUOTE
    ELSE value

\* app.js:391-399
entryLine(entry) ==
    join(<<escape(entry.title), escape(entry.url), escape(entry.username),
           escape(entry.password), escape(entry.notes), "">>, COMMA)

generateCsv(entries) ==
    join(<<CsvHeader>> \o [i \in 1..Len(entries) |-> entryLine(entries[i])], CRLF)

-----------------------------------------------------------------------------
(* State of the page while a pure function is checked on its own: nothing
   loaded, nothing compared *)

NoFile == "<no file>"
Slots == {"dash", "apple"}
AllHidden == [summary |-> TRUE, preview |-> TRUE, export |-> TRUE]

PageIdle ==
    /\ dashEntries = <<>>
    /\ appleEntries = <<>>
    /\ missingEntries = <<>>
    /\ strictChecked = FALSE
    /\ currentLang = "fr"
    /\ hidden = AllHidden
    /\ compareDisabled = TRUE
    /\ selected = [s \in Slots |-> NoFile]
    /\ reads = [s \in Slots |-> <<>>]
    /\ latest = [s \in Slots |-> "none"]
    /\ exported = ""

-----------------------------------------------------------------------------
(* computeMissing on its own: every pair of lists over a pool of records
   such as parseFile builds (domain derived from url) *)

MaxListA == 2
MaxListB == 2

\* url and username of the records compared: two urls that differ by case
\* only, two of one domain that differ by more, one of another domain, and
\* usernames and urls that hold the "|" character
CompareFields ==
    {<<"https://a.com/x", "z">>, <<"https://a.com/X", "z">>,
     <<"https://a.com/x|y", "z">>, <<"https://a.com/x", "y|z">>,
     <<"https://w.b.org/x", "z">>}

ComparePool ==
    {[EmptyEntry EXCEPT !.url = f[1], !.domain = extractDomain(f[1]), !.username = f[2]] :
        f \in CompareFields}

InitCompare ==
    /\ PageIdle
    /\ args \in [listA : Lists(ComparePool, MaxListA),
                 listB : Lists(ComparePool, MaxListB),
                 strict : BOOLEAN]
    /\ result = <<>>
    /\ done = FALSE

CallComputeMissing ==
    /\ ~done
    /\ result' = computeMissing(args.listA, args.listB, args.strict)
    /\ done' = TRUE
    /\ UNCHANGED <<args, uiVars>>

SpecCompare == InitCompare /\ [][CallComputeMissing]_vars

\* the key as the claims word it: lower-cased url (strict) or domain, the
\* separator, lower-cased username
ClaimField(e, strict) == IF strict THEN toLowerCase(e.url) ELSE toLowerCase(e.domain)
ClaimKey(e, strict) == ClaimField(e, strict) \o "|" \o toLowerCase(e.username)

InResult(e) == \E k \in 1..Len(result) : result[k] = e

\* C1: computeMissing returns exactly the records of listA, in listA's order
\* and with duplicates kept, whose key is the key of no record of listB.
C1_ComputeMissingIsOrderedDifference ==
    done =>
        result = SelectSeq(args.listA,
                     LAMBDA a : \A j \in 1..Len(args.listB) :
                         ClaimKey(args.listB[j], args.strict) # ClaimKey(a, args.strict))

\* a call that drops the first record of listA, keeps the second, against a
\* listB of two records
C1_Witness ==
    /\ done
    /\ Len(args.listA) = 2
    /\ Len(args.listB) = 2
    /\ result = <<args.listA[2]>>
    /\ args.listA[1].url # args.listB[1].url
    /\ args.listA[1].url # args.listB[2].url

\* C2 as claimed: with a single record b in source B that has a's domain and
\* username but another full url, a is reported missing exactly in strict mode.
C2_StrictDivergenceAsClaimed ==
    (done /\ Len(args.listB) = 1) =>
        \A i \in 1..Len(args.listA) :
            LET a == args.listA[i]
                b == args.listB[1]
            IN  (a.domain = b.domain /\ a.username = b.username /\ a.url # b.url)
                    => (InResult(a) <=> args.strict)

\* C2 amended: the same, for urls that still differ once lower-cased.
C2_StrictDivergence ==
    (done /\ Len(args.listB) = 1) =>
        \A i \in 1..Len(args.listA) :
            LET a == args.listA[i]
                b == args.listB[1]
            IN  (/\ a.domain = b.domain
                 /\ a.username = b.username
                 /\ toLowerCase(a.url) # toLowerCase(b.url))
                    => (InResult(a) <=> args.strict)

C2_Witness ==
    /\ done
    /\ args.strict
    /\ Len(args.listB) = 1
    /\ Len(args.listA) = 1
    /\ args.listA[1].domain = args.listB[1].domain
    /\ args.listA[1].username = args.listB[1].username
    /\ toLowerCase(args.listA[1].url) # toLowerCase(args.listB[1].url)
    /\ result = args.listA

\* C3: a record of listA is left out of the result only if some record of
\* listB has the same lower-cased url (strict) or domain (non-strict) and the
\* same lower-cased username: the separator never makes two keys collide.
C3_SeparatorNeverCollides ==
    done =>
        \A i \in 1..Len(args.listA) :
            ~InResult(args.listA[i]) =>
                \E j \in 1..Len(args.listB) :
                    /\ ClaimField(args.listB[j], args.strict)
                           = ClaimField(args.listA[i], args.strict)
                    /\ toLowerCase(args.listB[j].username)
                           = toLowerCase(args.listA[i].username)

-----------------------------------------------------------------------------
(* normaliseUrl on its own *)

MaxUrlBody == 3

UrlSchemes == {"", "http://", "https://", "HTTPS://"}
\* a scheme or none, then at most n characters
UrlInputs(n) ==
    {sch \o body : sch \in UrlSchemes, body \in Strings({"a", "/", " "}, n)}

InitNormaliseUrl ==
    /\ PageIdle
    /\ args \in UrlInputs(MaxUrlBody)
    /\ result = ""
    /\ done = FALSE

CallNormaliseUrl ==
    /\ ~done
    /\ result' = normaliseUrl(args)
    /\ done' = TRUE
    /\ UNCHANGED <<args, uiVars>>

SpecNormaliseUrl == InitNormaliseUrl /\ [][CallNormaliseUrl]_vars

\* C7: normaliseUrl is idempotent: normalising the value it returned returns
\* that value again.
C7_NormaliseUrlIdempotent == done => normaliseUrl(result) = result

-----------------------------------------------------------------------------
(* detectMapping on its own *)

MaxHeaders == 2

AppleHeaders == <<"title", "url", "username", "password", "notes", "otpAuth">>
FrenchHeaders == <<"Nom", "Site", "Identifiant", "Mot de passe", "extra">>

HeaderPool ==
    {"title", "url", "username", "password", "notes", "otpAuth",
     "Nom", "Site", "Identifiant", "Mot de passe", "extra", "E-Mail", "Login name"}

\* every column order of the six Apple headers
ApplePermutations ==
    {[i \in 1..6 |-> AppleHeaders[p[i]]] : p \in Permutations(1..6)}

\* every row of at most n headers, the Apple rows and the French row
HeaderRows(n) ==
    Lists(HeaderPool, n) \cup ApplePermutations \cup {FrenchHeaders}

InitDetectMapping ==
    /\ PageIdle
    /\ args \in HeaderRows(MaxHeaders)
    /\ result = <<>>
    /\ done = FALSE

CallDetectMapping ==
    /\ ~done
    /\ result' = detectMapping(args)
    /\ done' = TRUE
    /\ UNCHANGED <<args, uiVars>>

SpecDetectMapping == InitDetectMapping /\ [][CallDetectMapping]_vars

\* the fields claimed by the columns before col
ClaimedBefore(col) == {result[k] : k \in 1..(col - 1)} \ {""}

\* the unclaimed fields of which the header of column col contains a synonym
Claimable(col) ==
    {f \in {FieldOrder[p] : p \in 1..Len(FieldOrder)} :
        /\ f \notin ClaimedBefore(col)
        /\ matchesProp(normaliseHeader(args[col]), f)}

FirstInOrder(fields) ==
    FieldOrder[CHOOSE p \in 1..Len(FieldOrder) :
                   /\ FieldOrder[p] \in fields
                   /\ \A q \in 1..(p - 1) : FieldOrder[q] \notin fields]

\* C5: every column whose header contains a synonym of a still unclaimed
\* field is mapped to the first such field in priority order, a column is
\* unmapped only when there is no such field, and the six headers title, url,
\* username, password, notes, otpAuth are mapped to their own fields in any
\* column order.
C5_MapsToFirstUnclaimedField ==
    done =>
        /\ Len(result) = Len(args)
        /\ \A col \in 1..Len(args) :
               IF Claimable(col) # {}
               THEN result[col] = FirstInOrder(Claimable(col))
               ELSE result[col] = ""
        /\ args \in ApplePermutations => result = args

\* C6: Nom, Site, Identifiant, Mot de passe, extra are mapped to title, url,
\* username, password and nothing.
C6_FrenchHeaderRow ==
    (done /\ args = FrenchHeaders) =>
        result = <<"title", "url", "username", "password", "">>

-----------------------------------------------------------------------------
(* generateCsv on its own *)

MaxEntries == 2

\* field values with and without the characters escape looks for
CsvFieldValues == {"", "a,b", "q\"r", "l\nm", "c\rd", ",\"\n\""}

PlainEntry ==
    [title |-> "t", url |-> "u", username |-> "n", password |-> "p",
     notes |-> "o", otpAuth |-> "", domain |-> ""]

ExportedFields == <<"title", "url", "username", "password", "notes">>

\* PlainEntry with one property replaced, an entry with a stored otpAuth,
\* and an entry whose five exported fields all need quoting
CsvEntryPool ==
    {[PlainEntry EXCEPT ![ExportedFields[k]] = v] :
        k \in 1..Len(ExportedFields), v \in CsvFieldValues}
    \cup {[PlainEntry EXCEPT !.otpAuth = "otpauth://x"],
          [title |-> "a,b", url |-> "q\"r", username |-> "l\nm", password |-> ",",
           notes |-> "\"", otpAuth |-> "k", domain |-> "d"]}

InitGenerateCsv ==
    /\ PageIdle
    /\ args \in Lists(CsvEntryPool, MaxEntries)
    /\ result = ""
    /\ done = FALSE

CallGenerateCsv ==
    /\ ~done
    /\ result' = generateCsv(args)
    /\ done' = TRUE
    /\ UNCHANGED <<args, uiVars>>

SpecGenerateCsv == InitGenerateCsv /\ [][CallGenerateCsv]_vars

NeedsQuoting(f) == \E i \in 1..Len(f) : SubSeq(f, i, i) \in {",", "\"", "\n"}

\* f with every double-quote written twice
RECURSIVE ClaimDoubled(_)
ClaimDoubled(f) ==
    IF f = "" THEN ""
    ELSE ClaimDoubled(SubSeq(f, 1, Len(f) - 1))
            \o (IF SubSeq(f, Len(f), Len(f)) = "\"" THEN "\"\"" ELSE SubSeq(f, Len(f), Len(f)))

ClaimField9(f) == IF NeedsQuoting(f) THEN "\"" \o ClaimDoubled(f) \o "\"" ELSE f

ClaimLine(e) ==
    ClaimField9(e.title) \o "," \o ClaimField9(e.url) \o "," \o ClaimField9(e.username)
        \o "," \o ClaimField9(e.password) \o "," \o ClaimField9(e.notes) \o ","

\* the header line followed by CRLF and a line for each of the first n entries
RECURSIVE ClaimCsv(_, _)
ClaimCsv(entries, n) ==
    IF n = 0 THEN "title,url,username,password,notes,otpAuth"
    ELSE ClaimCsv(entries, n - 1) \o "\r\n" \o ClaimLine(entries[n])

\* C9: generateCsv returns the header line, then one line per entry in input
\* order, joined by CRLF with nothing after the last line; a line is title,
\* url, username, password, notes and an empty otpAuth; a field is quoted,
\* its double-quotes doubled, iff it holds a comma, a double-quote or a
\* newline.
C9_GenerateCsvFormat == done => result = ClaimCsv(args, Len(args))

\* two entries, one with a stored otpAuth, one with a field that is quoted
C9_Witness ==
    /\ done
    /\ Len(args) = 2
    /\ args[1].otpAuth # ""
    /\ NeedsQuoting(args[2].title)
    /\ HasChar(args[2].title, DQUOTE)
    /\ ~NeedsQuoting(args[2].notes)

-----------------------------------------------------------------------------
(* parseCSV on its own: texts written field by field from a table of cells,
   each cell plain or quoted, each row ended by \n, \r or \r\n, the last
   row with or without a terminator *)

MaxCells == 3

\* a cell as written (raw) and the value it stands for
WrittenCells ==
    {[raw |-> "a", value |-> "a"],
     [raw |-> "", value |-> ""],
     [raw |-> "\"\"", value |-> ""],
     [raw |-> "\",\n\"\"\r\"", value |-> ",\n\"\r"]}

Terminators == {LF, CR, CRLF}

\* the texts of n cells that end right after a comma or a terminator: text,
\* the rows ended so far, the cells of the row being written, and whether the
\* text ends with a bare \r
RECURSIVE OpenTexts(_)
OpenTexts(n) ==
    IF n = 0
    THEN {[text |-> "", rows |-> <<>>, row |-> <<>>, afterCR |-> FALSE]}
    ELSE LET prev == OpenTexts(n - 1)
         IN  {[text |-> p.text \o c.raw \o COMMA, rows |-> p.rows,
               row |-> Append(p.row, c.value), afterCR |-> FALSE] :
                  p \in prev, c \in WrittenCells}
             \cup
             {[text |-> x[1].text \o x[2].raw \o x[3],
               rows |-> Append(x[1].rows, Append(x[1].row, x[2].value)),
               row |-> <<>>, afterCR |-> (x[3] = CR)] :
                  x \in {y \in prev \X WrittenCells \X Terminators :
                            \* a \r that ends a row is not followed by a \n
                            \* that ends the next one
                            ~(y[1].afterCR /\ y[2].raw = "" /\ y[3] # CR)}}

\* the text p ended by a terminator, with the table it was written from
ClosedText(p) == [text |-> p.text, cells |-> p.rows, written |-> TRUE]

\* the text p followed by a last cell c left without a terminator
UnterminatedText(p, c) ==
    [text |-> p.text \o c.raw,
     cells |-> Append(p.rows, Append(p.row, c.value)),
     written |-> TRUE]

QuotedExample == "a,\"b,c\",\"d\"\"e\"\n"

MaxTextLen == 4

\* every text of at most n characters over those parseCSV tells apart
AnyTexts(n) == Strings({"a", COMMA, DQUOTE, LF, CR}, n)

\* the argument: a written text of at most MaxCells cells, the empty text,
\* the quoted example, or any text of at most MaxTextLen characters
InitParseCSV ==
    /\ PageIdle
    /\ \/ \E n \in 1..MaxCells : \E p \in OpenTexts(n) :
              /\ p.row = <<>>
              /\ args = ClosedText(p)
       \/ \E n \in 1..MaxCells : \E p \in OpenTexts(n - 1) : \E c \in WrittenCells :
              \* a lone empty cell is no row
              /\ p.row # <<>> \/ c.value # ""
              /\ args = UnterminatedText(p, c)
       \/ args \in {[text |-> "", cells |-> <<>>, written |-> TRUE],
                    [text |-> QuotedExample, cells |-> <<<<"a", "b,c", "d\"e">>>>,
                     written |-> TRUE]}
       \/ \E t \in AnyTexts(MaxTextLen) :
              args = [text |-> t, cells |-> <<>>, written |-> FALSE]
    /\ result = <<>>
    /\ done = FALSE

CallParseCSV ==
    /\ ~done
    /\ result' = parseCSV(args.text)
    /\ done' = TRUE
    /\ UNCHANGED <<args, uiVars>>

SpecParseCSV == InitParseCSV /\ [][CallParseCSV]_vars

\* position i of text t is outside quotes: an even number of double-quotes
\* comes before it
OutsideQuotes(t, i) ==
    Cardinality({j \in 1..(i - 1) : SubSeq(t, j, j) = "\""}) % 2 = 0

\* positions of the commas outside quotes
FieldBreaks(t) == {i \in 1..Len(t) : SubSeq(t, i, i) = "," /\ OutsideQuotes(t, i)}

\* positions where a terminator outside quotes starts: a \r, or a \n that
\* does not complete a \r\n
RowBreaks(t) ==
    {i \in 1..Len(t) :
        /\ OutsideQuotes(t, i)
        /\ \/ SubSeq(t, i, i) = "\r"
           \/ SubSeq(t, i, i) = "\n" /\ ~(i > 1 /\ SubSeq(t, i - 1, i - 1) = "\r")}

\* t ends with a terminator outside quotes
EndsWithRowBreak(t) ==
    \E i \in RowBreaks(t) :
        \/ i = Len(t)
        \/ i = Len(t) - 1 /\ SubSeq(t, i, i + 1) = "\r\n"

\* the characters of t, in order, that are no double-quote and no separator
\* outside quotes
RECURSIVE FieldChars(_, _)
FieldChars(t, n) ==
    IF n = 0 THEN ""
    ELSE FieldChars(t, n - 1)
            \o (IF \/ SubSeq(t, n, n) = "\""
                   \/ OutsideQuotes(t, n) /\ SubSeq(t, n, n) \in {",", "\n", "\r"}
                THEN "" ELSE SubSeq(t, n, n))

RECURSIVE WithoutQuotes(_)
WithoutQuotes(f) ==
    IF f = "" THEN ""
    ELSE (IF SubSeq(f, 1, 1) = "\"" THEN "" ELSE SubSeq(f, 1, 1))
            \o WithoutQuotes(SubSeq(f, 2, Len(f)))

\* the fields of the first n rows, one after the other
RECURSIVE AllFields(_, _)
AllFields(rows, n) == IF n = 0 THEN <<>> ELSE AllFields(rows, n - 1) \o rows[n]

RECURSIVE Concat(_)
Concat(fields) == IF fields = <<>> THEN "" ELSE Head(fields) \o Concat(Tail(fields))

\* C8: parseCSV honours quoting.  For a text written from a table it returns
\* that table: quoted commas and line terminators stay in their field, a
\* doubled double-quote inside quotes is one double-quote, each \n, \r or
\* \r\n outside quotes ends one row and a trailing terminator adds no row.
\* For every text, the rows are one per terminator outside quotes plus at
\* most one unterminated last row, the fields one per row plus one per comma
\* outside quotes, and the fields hold, in order, every character that is not
\* a separator outside quotes.  a,"b,c","d""e"\n is the one row a / b,c / d"e
\* and the empty text has no rows.
C8_ParseCsvHonoursQuoting ==
    done =>
        /\ args.written => result = args.cells
        /\ Len(result) \in {Cardinality(RowBreaks(args.text)),
                            Cardinality(RowBreaks(args.text)) + 1}
        /\ EndsWithRowBreak(args.text)
              => Len(result) = Cardinality(RowBreaks(args.text))
        /\ Len(AllFields(result, Len(result)))
              = Len(result) + Cardinality(FieldBreaks(args.text))
        /\ WithoutQuotes(Concat(AllFields(result, Len(result))))
              = FieldChars(args.text, Len(args.text))
        /\ args.text = "" => result = <<>>
        /\ args.text = "a,\"b,c\",\"d\"\"e\"\n" => result = <<<<"a", "b,c", "d\"e">>>>

\* a text of two rows ended by \r\n, with quoted cells that hold a comma, a
\* newline, a doubled double-quote and a carriage return
C8_Witness ==
    /\ done
    /\ Len(result) = 2
    /\ result[1] = <<"a", ",\n\"\r">>
    /\ result[2] = <<",\n\"\r">>
    /\ Len(args.text) > 2
    /\ SubSeq(args.text, Len(args.text) - 1, Len(args.text)) = CRLF

-----------------------------------------------------------------------------
(* generateCsv followed by parseFile *)

MaxRoundTrip == 2

\* records such as parseFile builds, no field holding a comma, a
\* double-quote, \n or \r
RoundTripPool ==
    {[title |-> t, url |-> u, username |-> n, password |-> p, notes |-> o,
      otpAuth |-> "", domain |-> extractDomain(u)] :
        t \in {"", "t"}, u \in {"", "https://a.com"}, n \in {"", "bob"},
        p \in {"", "p"}, o \in {"", "o"}}

InitRoundTrip ==
    /\ PageIdle
    /\ args \in Lists(RoundTripPool, MaxRoundTrip)
    /\ result = <<>>
    /\ done = FALSE

CallRoundTrip ==
    /\ ~done
    /\ result' = parseFile(generateCsv(args))
    /\ done' = TRUE
    /\ UNCHANGED <<args, uiVars>>

SpecRoundTrip == InitRoundTrip /\ [][CallRoundTrip]_vars

\* C4: parsing the CSV generated from a list of records, none of whose fields
\* holds a comma, a double-quote or a newline, gives as many records, in the
\* same order, with the same title, url, username, password and notes.
C4_RoundTrip ==
    done =>
        /\ Len(result) = Len(args)
        /\ \A i \in 1..Len(args) :
               \A k \in 1..Len(ExportedFields) :
                   result[i][ExportedFields[k]] = args[i][ExportedFields[k]]

-----------------------------------------------------------------------------
(* generateCsv followed by parseCSV *)

CallParseGenerated ==
    /\ ~done
    /\ result' = parseCSV(generateCsv(args))
    /\ done' = TRUE
    /\ UNCHANGED <<args, uiVars>>

SpecParseGenerated == InitGenerateCsv /\ [][CallParseGenerated]_vars

\* C12: the rows parseCSV reads from the text generateCsv wrote for a list of
\* entries are the six header names followed, for each entry in order, by
\* its title, url, username, password and notes as they were and an empty
\* sixth field, whatever characters the fields hold.
C12_TokenizerReadsBackSerializer ==
    done =>
        /\ Len(result) = 1 + Len(args)
        /\ result[1] = <<"title", "url", "username", "password", "notes", "otpAuth">>
        /\ \A i \in 1..Len(args) :
               result[i + 1] = <<args[i].title, args[i].url, args[i].username,
                                args[i].password, args[i].notes, "">>

-----------------------------------------------------------------------------
(* The page: file inputs, Compare, the strict toggle, the language toggle
   and Export (app.js:423-476).  The text content of the page is not
   modelled: no handler reads it back. *)

MaxPending == 2

\* the content of the files the user picks
FileX == "url,login\na.com/x,bob\nb.org,amy\n"
FileY == "url,login\na.com/y,bob\n"
Files == {FileX, FileY}

\* what parseFile resolves with for each file
Parsed == [f \in Files |-> parseFile(f)]

Init ==
    /\ dashEntries = <<>>
    /\ appleEntries = <<>>
    /\ missingEntries = <<>>
    /\ strictChecked = FALSE
    /\ currentLang = "fr"
    /\ hidden = AllHidden
    \* set by the page's markup, which is not among the sources
    /\ compareDisabled \in BOOLEAN
    /\ selected = [s \in Slots |-> NoFile]
    /\ reads = [s \in Slots |-> <<>>]
    /\ latest = [s \in Slots |-> "none"]
    /\ exported = ""
    /\ args = <<>>
    /\ result = <<>>
    /\ done = FALSE

entriesOf(s) == IF s = "dash" THEN dashEntries ELSE appleEntries

\* the then callback of app.js:426-433 and 443-449 for slot s
Resolved(s, list) ==
    /\ dashEntries' = IF s = "dash" THEN list ELSE dashEntries
    /\ appleEntries' = IF s = "apple" THEN list ELSE appleEntries
    \* updateCompareButton, app.js:289-291
    /\ compareDisabled' = ~(Len(dashEntries') > 0 /\ Len(appleEntries') > 0)
    /\ hidden' = AllHidden

\* the catch callback of app.js:434-437 and 450-453 for slot s
Rejected(s) ==
    /\ dashEntries' = IF s = "dash" THEN <<>> ELSE dashEntries
    /\ appleEntries' = IF s = "apple" THEN <<>> ELSE appleEntries
    /\ UNCHANGED <<compareDisabled, hidden>>

RemoveAt(seq, k) == SubSeq(seq, 1, k - 1) \o SubSeq(seq, k + 1, Len(seq))

\* the change event of a file input: parseFile starts a read of the chosen
\* file, or resolves at once with [] when the choice is empty (app.js:236-239)
ChangeFile(s, f) ==
    \* the event fires when the selection changes
    /\ f # selected[s]
    /\ selected' = [selected EXCEPT ![s] = f]
    /\ IF f = NoFile
       THEN /\ Resolved(s, <<>>)
            /\ latest' = [latest EXCEPT ![s] = "loaded"]
            /\ UNCHANGED reads
       ELSE /\ Len(reads[s]) < MaxPending
            /\ reads' = [reads EXCEPT ![s] = Append(@, f)]
            /\ latest' = [latest EXCEPT ![s] = "reading"]
            /\ UNCHANGED <<dashEntries, appleEntries, compareDisabled, hidden>>
    /\ UNCHANGED <<missingEntries, strictChecked, currentLang, exported, fnVars>>

\* whether read k of slot s is the read of the current selection
IsLatest(s, k) == latest[s] = "reading" /\ k = Len(reads[s])

\* reader.onload of read k of slot s, app.js:241-280
ReadLoaded(s, k) ==
    /\ k \in 1..Len(reads[s])
    /\ Resolved(s, Parsed[reads[s][k]])
    /\ reads' = [reads EXCEPT ![s] = RemoveAt(@, k)]
    /\ latest' = IF IsLatest(s, k) THEN [latest EXCEPT ![s] = "loaded"] ELSE latest
    /\ UNCHANGED <<missingEntries, strictChecked, currentLang, selected, exported, fnVars>>

\* reader.onerror of read k of slot s, app.js:281
ReadFailed(s, k) ==
    /\ k \in 1..Len(reads[s])
    /\ Rejected(s)
    /\ reads' = [reads EXCEPT ![s] = RemoveAt(@, k)]
    /\ latest' = IF IsLatest(s, k) THEN [latest EXCEPT ![s] = "failed"] ELSE latest
    /\ UNCHANGED <<missingEntries, strictChecked, currentLang, selected, exported, fnVars>>

\* performComparison, app.js:365-373, with the toggle at strict
performComparison(strict) ==
    /\ missingEntries' = computeMissing(dashEntries, appleEntries, strict)
    /\ hidden' = [summary |-> FALSE, preview |-> FALSE, export |-> FALSE]

\* the click on Compare, app.js:456-458
CompareClick ==
    /\ ~compareDisabled
    /\ performComparison(strictChecked)
    /\ UNCHANGED <<dashEntries, appleEntries, strictChecked, currentLang,
                   compareDisabled, selected, reads, latest, exported, fnVars>>

\* the change of the strict toggle, app.js:460-467
StrictToggleChange ==
    /\ strictChecked' = ~strictChecked
    /\ IF Len(dashEntries) > 0 /\ Len(appleEntries) > 0
       THEN performComparison(strictChecked')
       ELSE UNCHANGED <<missingEntries, hidden>>
    /\ UNCHANGED <<dashEntries, appleEntries, currentLang, compareDisabled,
                   selected, reads, latest, exported, fnVars>>

\* the click on Export, app.js:407-420 and 469-471; the button is inside the
\* export section
ExportClick ==
    /\ ~hidden.export
    /\ exported' = IF Len(missingEntries) = 0 THEN exported
                   ELSE generateCsv(missingEntries)
    /\ UNCHANGED <<dashEntries, appleEntries, missingEntries, strictChecked,
                   currentLang, hidden, compareDisabled, selected, reads, latest, fnVars>>

\* the click on the language button, app.js:473-476
ToggleLang ==
    /\ currentLang' = IF currentLang = "fr" THEN "en" ELSE "fr"
    /\ UNCHANGED <<dashEntries, appleEntries, missingEntries, strictChecked,
                   hidden, compareDisabled, selected, reads, latest, exported, fnVars>>

Next ==
    \/ \E s \in Slots, f \in Files \cup {NoFile} : ChangeFile(s, f)
    \/ \E s \in Slots, k \in 1..MaxPending : ReadLoaded(s, k)
    \/ \E s \in Slots, k \in 1..MaxPending : ReadFailed(s, k)
    \/ CompareClick
    \/ StrictToggleChange
    \/ ExportClick
    \/ ToggleLang

Spec == Init /\ [][Next]_vars

\* the behaviours of the page in which the user only picks files and every
\* read succeeds
NextLoads ==
    \/ \E s \in Slots, f \in Files \cup {NoFile} : ChangeFile(s, f)
    \/ \E s \in Slots, k \in 1..MaxPending : ReadLoaded(s, k)

SpecLoads == Init /\ [][NextLoads]_vars

\* C10: once no read of a slot is in flight and the read of the file chosen
\* last has succeeded, the slot's records are the parse of that file,
\* whatever the order in which the reads completed.
C10_LatestSelectionWins ==
    \A s \in Slots :
        (reads[s] = <<>> /\ latest[s] = "loaded" /\ selected[s] # NoFile)
            => entriesOf(s) = parseFile(selected[s])

\* C11: whenever the summary, the preview or the export section is visible,
\* missingEntries is the comparison of the two lists as they are now, under
\* the mode the strict toggle shows now.
C11_VisibleResultIsCurrent ==
    (~hidden.summary \/ ~hidden.preview \/ ~hidden.export)
        => missingEntries = computeMissing(dashEntries, appleEntries, strictChecked)

=============================================================================
